---- MODULE Spec2Model ----
(***************************************************************************)
(* Model of src/src/data_processor.py: the DataProcessor class (load_data, *)
(* analyze_dataset, save_enriched_data, generate_report) and main(), run   *)
(* against a small file system (<base>/raw and <base>/processed); and of   *)
(* src/dashboards/dashboard_utils.py: load_forecast_data,                  *)
(* calculate_growth_metrics, save_dashboard_state, load_dashboard_state.   *)
(*                                                                         *)
(* A DataFrame is a record [columns, rows]: rows is a sequence of          *)
(* functions from column name to cell value.  A missing cell is NaN.       *)
(***************************************************************************)
EXTENDS Integers, Sequences, FiniteSets, TLC

\* ---------------------------------------------------------------- bounds
MaxRows == 2      \* rows of the main table
MaxNew == 1       \* length of a collection in new_records
MaxClock == 2     \* distinct values datetime.now() may return

\* ------------------------------------------------------------ cell values
NaN == "NaN"      \* a missing cell, as pd.read_csv yields it
None == "None"    \* Python None

RecordTypes == {"observation", "event"}
RawDates == {"2014-12-31", "2021-06-30", "not-a-date"}
IndicatorCodes == {"ACC_OWNERSHIP", "USG_DIGITAL_PAYMENT"}
OptionalColumns == {"observation_date", "indicator_code"}

CellValues(c) ==
    CASE c = "record_type" -> RecordTypes \cup {NaN}
      [] c = "observation_date" -> RawDates \cup {NaN}
      [] c = "indicator_code" -> IndicatorCodes \cup {NaN}

AllCells == RecordTypes \cup RawDates \cup IndicatorCodes \cup {NaN}

RowsOver(cols) ==
    {r \in [cols -> AllCells] : \A c \in cols : r[c] \in CellValues(c)}

SeqUpTo(S, n) == UNION {[1..k -> S] : k \in 0..n}

\* Every table pd.read_csv can yield within the bounds; record_type is always
\* a column (the precondition of analyze_dataset the claims are stated under).
Tables ==
    UNION {[columns : {{"record_type"} \cup cs},
            rows : SeqUpTo(RowsOver({"record_type"} \cup cs), MaxRows)]
           : cs \in SUBSET OptionalColumns}

\* --------------------------------------------------------- pandas helpers
\* df[c]: the column as a Series (KeyError is decided by the caller)
Column(df, c) == [i \in 1..Len(df.rows) |-> df.rows[i][c]]

value_counts_known_types(s) ==
    LET keys == {s[i] : i \in DOMAIN s} \cap {"observation", "event", "impact_link"}
    IN  [v \in keys |-> Cardinality({i \in DOMAIN s : s[i] = v})]

\* Series.value_counts().to_dict(): dropna=True is the default
value_counts(s) ==
    LET keys == {s[i] : i \in DOMAIN s} \ {NaN}
    IN  [v \in keys |-> Cardinality({i \in DOMAIN s : s[i] = v})]

ObservationRowsUnfiltered(df) == df
\* df[df['record_type'] == 'observation'].copy()
ObservationRows(df) ==
    [columns |-> df.columns,
     rows |-> SelectSeq(df.rows, LAMBDA r : r["record_type"] = "observation")]

NaT == 0
\* pd.to_datetime(x, errors='coerce') on one cell: a Timestamp (as yyyymmdd) or NaT
to_datetime(x) ==
    CASE x = "2014-12-31" -> 20141231
      [] x = "2021-06-30" -> 20210630
      [] OTHER -> NaT

\* Timestamp.strftime('%Y-%m-%d')
strftime(t) ==
    CASE t = 20141231 -> "2014-12-31"
      [] t = 20210630 -> "2021-06-30"

\* Series.isna().all(): True on an empty Series
isna_all(s) == \A i \in DOMAIN s : s[i] = NaT

\* Series.min() / Series.max() skip NaT
series_min(s) ==
    CHOOSE t \in {s[i] : i \in DOMAIN s} \ {NaT} :
        \A i \in DOMAIN s : s[i] # NaT => t <= s[i]

series_max(s) ==
    CHOOSE t \in {s[i] : i \in DOMAIN s} \ {NaT} :
        \A i \in DOMAIN s : s[i] # NaT => t >= s[i]

\* Series.dropna().unique(): distinct non-null values in order of first occurrence
RECURSIVE dropna_unique(_)
dropna_unique(s) ==
    IF Len(s) = 0 THEN <<>>
    ELSE LET front == dropna_unique(SubSeq(s, 1, Len(s) - 1))
             x == s[Len(s)]
         IN  IF x = NaN \/ \E i \in DOMAIN front : front[i] = x
             THEN front
             ELSE Append(front, x)

Tail_n(s, n) == SubSeq(s, (IF Len(s) < n THEN 0 ELSE Len(s) - n) + 1, Len(s))
\* arr[:n]
Head_n(s, n) == SubSeq(s, 1, IF Len(s) < n THEN Len(s) ELSE n)

\* DataFrame.isnull().sum(): per column, the number of missing cells
RECURSIVE null_sum(_, _)
null_sum(rows, c) ==
    IF Len(rows) = 0 THEN 0
    ELSE (IF Head(rows)[c] = NaN THEN 1 ELSE 0) + null_sum(Tail(rows), c)

isnull_sum(df) == [c \in df.columns |-> null_sum(df.rows, c)]

positive_only_unfiltered(m) == m
\* missing[missing > 0].to_dict()
positive_only(m) == [c \in {k \in DOMAIN m : m[k] > 0} |-> m[c]]

\* --------------------------------------------------------- analyze_dataset
SampleSize == 5

obs_date_range_with_default(obs) ==
    LET raw == Column(obs, "observation_date")
        dates == [i \in DOMAIN raw |-> to_datetime(raw[i])]
    IN  [min |-> IF ~isna_all(dates) THEN strftime(series_min(dates)) ELSE "1970-01-01",
         max |-> IF ~isna_all(dates) THEN strftime(series_max(dates)) ELSE "1970-01-01"]

\* lines 49-53: parse the observation dates on the copy, report min and max
obs_date_range(obs) ==
    LET raw == Column(obs, "observation_date")
        dates == [i \in DOMAIN raw |-> to_datetime(raw[i])]
    IN  [min |-> IF ~isna_all(dates) THEN strftime(series_min(dates)) ELSE None,
         max |-> IF ~isna_all(dates) THEN strftime(series_max(dates)) ELSE None]

\* DataProcessor.analyze_dataset on a loaded frame: [status |-> "ok", value |-> the
\* analysis dict], or the KeyError that obs['indicator_code'] raises.  The
\* obs_date_range key is set only when the frame has an observation_date column.
analyze_dataset(df) ==
    LET obs == ObservationRows(df)
    IN  IF "indicator_code" \notin obs.columns
        THEN [status |-> "KeyError", key |-> "indicator_code"]
        ELSE LET unique_indicators == dropna_unique(Column(obs, "indicator_code"))
                 base == [record_counts |-> value_counts(Column(df, "record_type")),
                          unique_indicators_count |-> Len(unique_indicators),
                          sample_indicators |-> Head_n(unique_indicators, SampleSize),
                          missing_values |-> positive_only(isnull_sum(df))]
             IN  [status |-> "ok",
                  value |-> IF "observation_date" \in obs.columns
                            THEN [obs_date_range |-> obs_date_range(obs)] @@ base
                            ELSE base]

\* --------------------------------------------------------- generate_report
\* dict.get(key, default)
dict_get(d, k, default) == IF k \in DOMAIN d THEN d[k] ELSE default

NewRecordKeys == {"observations", "events", "impact_links"}

\* The new_records arguments a caller may pass: any subset of the keys, each
\* with a collection of at most MaxNew records.  main passes {}.
NewRecordsArgs ==
    UNION {[ks -> SeqUpTo({"record"}, MaxNew)] : ks \in SUBSET NewRecordKeys}

EmptyDict == << >>

enrichment_summary_wrong_key(new_records) ==
    [new_observations |-> Len(dict_get(new_records, "observations", << >>)),
     new_events |-> Len(dict_get(new_records, "observations", << >>)),
     new_impact_links |-> Len(dict_get(new_records, "impact_links", << >>))]

\* lines 98-102
enrichment_summary(new_records) ==
    [new_observations |-> Len(dict_get(new_records, "observations", << >>)),
     new_events |-> Len(dict_get(new_records, "events", << >>)),
     new_impact_links |-> Len(dict_get(new_records, "impact_links", << >>))]

\* lines 95-105: the report dict; now is datetime.now().isoformat()
build_report_stamping_analysis(now, analysis, new_records) ==
    [generated_date |-> now,
     dataset_analysis |-> [generated_date |-> now] @@ analysis,
     enrichment_summary |-> enrichment_summary(new_records),
     data_quality_issues |-> << >>,
     recommendations |-> << >>]

build_report(now, analysis, new_records) ==
    [generated_date |-> now,
     dataset_analysis |-> analysis,
     enrichment_summary |-> enrichment_summary(new_records),
     data_quality_issues |-> << >>,
     recommendations |-> << >>]

\* -------------------------------------------------------------- file system
Absent == [kind |-> "absent"]
Unreadable == [kind |-> "unreadable"]
Partial == [kind |-> "partial"]          \* opened with 'w', not written to the end
Csv(frame) == [kind |-> "csv", frame |-> frame]
Json(report) == [kind |-> "json", report |-> report]

RefCodes ==
    [columns |-> {"code", "label"},
     rows |-> << [code |-> "ACC_OWNERSHIP", label |-> "Account ownership"] >>]

\* A complete report left by an earlier run
PreviousReport ==
    Json(build_report(0,
                      analyze_dataset([columns |-> {"record_type", "observation_date",
                                                     "indicator_code"},
                                       rows |-> << >>]).value,
                      EmptyDict))

MainFile == "raw/ethiopia_fi_unified_data.csv"
RefFile == "raw/reference_codes.csv"
EnrichedFile == "processed/ethiopia_fi_enriched.csv"
ReportFile == "processed/task1_report.json"

\* lines 17-18: self.raw_dir and self.processed_dir under the base directory
raw_dir == "raw"
processed_dir_name == "processed"

\* the paths the processor opens: directory under the base, and file name
main_path == [dir |-> raw_dir, name |-> "ethiopia_fi_unified_data.csv"]
ref_path == [dir |-> raw_dir, name |-> "reference_codes.csv"]
enriched_path == [dir |-> processed_dir_name, name |-> "ethiopia_fi_enriched.csv"]
report_path == [dir |-> processed_dir_name, name |-> "task1_report.json"]

open_a(old, data) ==
    IF old.kind = "absent" THEN data ELSE [kind |-> "appended", parts |-> <<old, data>>]
\* open(path, 'w') and a complete write: the file holds the data written and
\* nothing of what it held before
open_w(old, data) == data

\* generate_report (lines 93-112) with the directory there or not, the file's
\* content before, a fault of the disk, the clock, and the two arguments:
\* the exception raised or None, the file afterwards, whether it was opened.
\*   open_failed:  open raises OSError, the path is untouched
\*   write_failed: the write fails after the open (e.g. the disk is full)
generate_report(dir_exists, old, fault, now, a, nr) ==
    CASE ~dir_exists \/ fault = "open_failed" ->
           [error |-> "OSError", file |-> old, opened |-> FALSE]
      [] fault = "write_failed" ->
           [error |-> "OSError", file |-> Partial, opened |-> TRUE]
      [] OTHER ->
           [error |-> None, file |-> open_w(old, Json(build_report(now, a, nr))),
            opened |-> TRUE]

Faults == {"none", "open_failed", "write_failed"}

df_after_analyze_on_view(frame) ==
    [columns |-> frame.columns,
     rows |-> [i \in DOMAIN frame.rows |->
                 IF /\ frame.rows[i]["record_type"] = "observation"
                    /\ "observation_date" \in frame.columns
                    /\ to_datetime(frame.rows[i]["observation_date"]) = NaT
                 THEN [frame.rows[i] EXCEPT !["observation_date"] = NaN]
                 ELSE frame.rows[i]]]
\* lines 47-49: obs is a copy of the selected rows, so assigning the parsed
\* dates to obs['observation_date'] leaves self.df as it was
df_after_analyze(frame) == frame

\* pd.read_csv: the frame, or the exception it raises
read_csv(file) ==
    CASE file.kind = "csv" -> [error |-> None, frame |-> file.frame]
      [] file.kind = "absent" -> [error |-> "FileNotFoundError"]
      [] OTHER -> [error |-> "PermissionError"]

\* -------------------------------------------------------------------- state
VARIABLES
    pc,             \* main's position, or how it ended: aborted, completed, raised
    calls,          \* the DataProcessor methods main has called, in order
    df,             \* processor.df: Unset or Set(frame)
    ref_codes,      \* processor.ref_codes: Unset or Set(frame)
    analysis,       \* what analyze_dataset returned (status "none" before the call)
    new_records,    \* the new_records argument generate_report was called with
    caught,         \* the exception load_data caught and printed, or None
    uncaught,       \* the exception that left main, or None
    raw_main,       \* <base>/raw/ethiopia_fi_unified_data.csv
    raw_ref,        \* <base>/raw/reference_codes.csv
    processed_dir,  \* whether <base>/processed exists
    enriched_file,  \* <base>/processed/ethiopia_fi_enriched.csv
    report_file,    \* <base>/processed/task1_report.json
    report_before,  \* what the report path held when the run began
    writes,         \* the files this run opened for writing, in order
    log,            \* the reads, the writes and what each call returned, in order
    \* dashboards/dashboard_utils.py
    account_file,   \* <data_dir>/forecast_table_ACC_OWNERSHIP.csv
    payment_file,   \* <data_dir>/forecast_table_USG_DIGITAL_PAYMENT.csv
    forecast,       \* what load_forecast_data returned or raised
    state_file,     \* dashboard_state.json
    saved,          \* the states save_dashboard_state was called with, in order
    loaded,         \* what the last load_dashboard_state returned or raised
    growth_args,    \* the arguments calculate_growth_metrics is called with
    growth          \* what calculate_growth_metrics returned or raised

dashboard_vars == <<account_file, payment_file, forecast, state_file, saved, loaded,
                    growth_args, growth>>

vars == <<pc, calls, df, ref_codes, analysis, new_records, caught, uncaught,
          raw_main, raw_ref, processed_dir, enriched_file, report_file,
          report_before, writes, log, dashboard_vars>>

Unset == [set |-> FALSE]
Set(frame) == [set |-> TRUE, frame |-> frame]
NotAnalyzed == [status |-> "none"]

NotCalled == [status |-> "none"]

\* data_processor.py does not import dashboard_utils: while a DataProcessor
\* runs, no dashboard function is called and the dashboard's files are not there
DashboardUnused ==
    /\ account_file = Absent
    /\ payment_file = Absent
    /\ forecast = NotCalled
    /\ state_file = Absent
    /\ saved = << >>
    /\ loaded = NotCalled
    /\ growth_args = NotCalled
    /\ growth = NotCalled

\* The state before main runs, over the given main tables: the raw files may be
\* there, missing or unreadable; an earlier run may have left a report.
InitWith(mains, refs, befores) ==
    /\ pc = "construct"
    /\ calls = << >>
    /\ df = Unset
    /\ ref_codes = Unset
    /\ analysis = NotAnalyzed
    /\ new_records = EmptyDict
    /\ caught = None
    /\ uncaught = None
    /\ raw_main \in mains
    /\ raw_ref \in refs
    /\ \E before \in befores :
          /\ processed_dir = before[1]
          /\ report_file = before[2]
          /\ report_before = before[2]
    /\ enriched_file = Absent
    /\ writes = << >>
    /\ log = << >>
    /\ DashboardUnused

InitOver(tables) ==
    InitWith({Absent, Unreadable} \cup {Csv(t) : t \in tables},
             {Absent, Unreadable, Csv(RefCodes)},
             {<<FALSE, Absent>>, <<TRUE, Absent>>, <<TRUE, PreviousReport>>})

Init == InitOver(Tables)

\* ------------------------------------------------------------------ actions
ConstructWithoutMkdir ==
    /\ pc = "construct"
    /\ calls' = Append(calls, "__init__")
    /\ pc' = "load"
    /\ UNCHANGED <<df, ref_codes, analysis, new_records, caught, uncaught, raw_main,
                   raw_ref, processed_dir, enriched_file, report_file, report_before,
                   writes, log>>
    /\ UNCHANGED dashboard_vars

\* line 122, DataProcessor.__init__ (lines 15-21): mkdir(parents, exist_ok)
Construct ==
    /\ pc = "construct"
    /\ calls' = Append(calls, "__init__")
    /\ processed_dir' = TRUE
    /\ pc' = "load"
    /\ UNCHANGED <<df, ref_codes, analysis, new_records, caught, uncaught, raw_main,
                   raw_ref, enriched_file, report_file, report_before, writes, log>>
    /\ UNCHANGED dashboard_vars

load_data_all_or_nothing(self_df, self_ref, main, ref) ==
    LET r1 == read_csv(main)
        r2 == read_csv(ref)
    IN  CASE r1.error = "FileNotFoundError" \/ (r1.error = None /\ r2.error = "FileNotFoundError") ->
               [ret |-> FALSE, raised |-> None, caught |-> "FileNotFoundError",
                df |-> self_df, ref_codes |-> self_ref]
          [] r1.error = "PermissionError" \/ r2.error = "PermissionError" ->
               [ret |-> FALSE, raised |-> "PermissionError", caught |-> None,
                df |-> self_df, ref_codes |-> self_ref]
          [] OTHER ->
               [ret |-> TRUE, raised |-> None, caught |-> None,
                df |-> Set(r1.frame), ref_codes |-> Set(r2.frame)]

\* DataProcessor.load_data (lines 23-37): what it returns or raises, and the
\* attributes it leaves.  Only FileNotFoundError is caught.
load_data(self_df, self_ref, main, ref) ==
    LET r1 == read_csv(main)
        r2 == read_csv(ref)
    IN  CASE r1.error = "FileNotFoundError" ->
               [ret |-> FALSE, raised |-> None, caught |-> r1.error,
                df |-> self_df, ref_codes |-> self_ref]
          [] r1.error = "PermissionError" ->
               [ret |-> FALSE, raised |-> r1.error, caught |-> None,
                df |-> self_df, ref_codes |-> self_ref]
          [] r1.error = None /\ r2.error = "FileNotFoundError" ->
               [ret |-> FALSE, raised |-> None, caught |-> r2.error,
                df |-> Set(r1.frame), ref_codes |-> self_ref]
          [] r1.error = None /\ r2.error = "PermissionError" ->
               [ret |-> FALSE, raised |-> r2.error, caught |-> None,
                df |-> Set(r1.frame), ref_codes |-> self_ref]
          [] OTHER ->
               [ret |-> TRUE, raised |-> None, caught |-> None,
                df |-> Set(r1.frame), ref_codes |-> Set(r2.frame)]

ReadEvent(path) == [ev |-> "read", path |-> path]
WriteEvent(path) == [ev |-> "write", path |-> path]

\* lines 28-29: the files load_data opens; the second only once the first is read
load_reads(main) ==
    IF read_csv(main).error = None
    THEN <<ReadEvent(main_path), ReadEvent(ref_path)>>
    ELSE <<ReadEvent(main_path)>>

AfterLoadIgnoringResult(ret) == "analyze"
\* lines 125-126: if not processor.load_data(): return
AfterLoad(ret) == IF ret THEN "analyze" ELSE "aborted"

LoadData ==
    /\ pc = "load"
    /\ calls' = Append(calls, "load_data")
    /\ LET r == load_data(df, ref_codes, raw_main, raw_ref)
       IN  /\ df' = r.df
           /\ ref_codes' = r.ref_codes
           /\ caught' = r.caught
           /\ uncaught' = r.raised
           /\ pc' = IF r.raised # None THEN "raised" ELSE AfterLoad(r.ret)
    /\ log' = log \o load_reads(raw_main)
    /\ UNCHANGED <<analysis, new_records, raw_main, raw_ref, processed_dir,
                   enriched_file, report_file, report_before, writes>>
    /\ UNCHANGED dashboard_vars

\* what a call of analyze_dataset was given (self.df, self.ref_codes) and returned
AnalyzeEvent(frame, refc, result) ==
    [ev |-> "analyze_dataset", frame |-> frame, ref_codes |-> refc, result |-> result]

\* what a call of generate_report was given, the state of the disk it met, and
\* what it raised and left at the report path
ReportEvent(a, nr, dir_exists, fault, r) ==
    [ev |-> "generate_report", analysis |-> a, new_records |-> nr,
     dir_existed |-> dir_exists, fault |-> fault, error |-> r.error, file |-> r.file]

analyze_call_with_lookup(frame, refc) ==
    LET r == analyze_dataset(frame)
        known == IF refc.set THEN {refc.frame.rows[i]["code"] : i \in DOMAIN refc.frame.rows}
                 ELSE {}
    IN  IF r.status # "ok" THEN r
        ELSE [r EXCEPT !.value.unique_indicators_count =
                Cardinality({i \in DOMAIN r.value.sample_indicators :
                                r.value.sample_indicators[i] \in known})]
\* processor.analyze_dataset() on a processor holding self.df = frame and
\* self.ref_codes = refc: the method reads self.df only (lines 44-62)
analyze_call(frame, refc) == analyze_dataset(frame)

\* The call analysis = processor.analyze_dataset(), going to pc value after
\* when it returns
CallAnalyzeDataset(after) ==
    /\ calls' = Append(calls, "analyze_dataset")
    /\ IF ~df.set
       THEN /\ analysis' = [status |-> "AttributeError", key |-> "df"]
            /\ uncaught' = "AttributeError"
            /\ pc' = "raised"
            /\ UNCHANGED <<df, log>>
       ELSE LET r == analyze_call(df.frame, ref_codes)
            IN  /\ analysis' = r
                /\ df' = Set(df_after_analyze(df.frame))
                /\ log' = Append(log, AnalyzeEvent(df.frame, ref_codes, r))
                /\ uncaught' = IF r.status = "ok" THEN None ELSE r.status
                /\ pc' = IF r.status = "ok" THEN after ELSE "raised"

\* line 130: analysis = processor.analyze_dataset()
AnalyzeDataset ==
    /\ pc = "analyze"
    /\ CallAnalyzeDataset("summary")
    /\ UNCHANGED <<ref_codes, new_records, caught, raw_main, raw_ref,
                   processed_dir, enriched_file, report_file, report_before, writes>>
    /\ UNCHANGED dashboard_vars

\* lines 132-136: the summary prints; analysis['obs_date_range'] is a KeyError
\* when analyze_dataset did not set the key
PrintSummary ==
    /\ pc = "summary"
    /\ IF "obs_date_range" \in DOMAIN analysis.value
       THEN pc' = "template" /\ uncaught' = None
       ELSE pc' = "raised" /\ uncaught' = "KeyError"
    /\ UNCHANGED <<calls, df, ref_codes, analysis, new_records, caught, raw_main,
                   raw_ref, processed_dir, enriched_file, report_file, report_before,
                   writes, log>>
    /\ UNCHANGED dashboard_vars

\* line 139: template = processor.create_enrichment_template(), a constant
CreateTemplate ==
    /\ pc = "template"
    /\ calls' = Append(calls, "create_enrichment_template")
    /\ pc' = "save"
    /\ UNCHANGED <<df, ref_codes, analysis, new_records, caught, uncaught, raw_main,
                   raw_ref, processed_dir, enriched_file, report_file, report_before,
                   writes, log>>
    /\ UNCHANGED dashboard_vars

SaveEnrichedSkipped ==
    /\ pc = "save"
    /\ pc' = "report"
    /\ UNCHANGED <<calls, df, ref_codes, analysis, new_records, caught, uncaught,
                   raw_main, raw_ref, processed_dir, enriched_file, report_file,
                   report_before, writes, log>>
    /\ UNCHANGED dashboard_vars

\* line 144, save_enriched_data (lines 86-91): to_csv writes the file, or the
\* write fails (OSError) after the file was opened
SaveEnriched ==
    /\ pc = "save"
    /\ calls' = Append(calls, "save_enriched_data")
    /\ \E ok \in BOOLEAN :
          IF processed_dir /\ ok
          THEN /\ enriched_file' = Csv(df.frame)
               /\ writes' = Append(writes, EnrichedFile)
               /\ uncaught' = None
               /\ pc' = "report"
          ELSE /\ enriched_file' = IF processed_dir THEN Partial ELSE enriched_file
               /\ writes' = IF processed_dir THEN Append(writes, EnrichedFile) ELSE writes
               /\ uncaught' = "OSError"
               /\ pc' = "raised"
    /\ log' = IF Len(writes') > Len(writes) THEN Append(log, WriteEvent(enriched_path))
              ELSE log
    /\ UNCHANGED <<df, ref_codes, analysis, new_records, caught, raw_main, raw_ref,
                   processed_dir, report_file, report_before>>
    /\ UNCHANGED dashboard_vars

\* The call generate_report(a, nr) on the disk as it is, going to pc value
\* after when it returns: the report file, the files written, the log.
CallGenerateReport(a, nr, after) ==
    /\ calls' = Append(calls, "generate_report")
    /\ new_records' = nr
    /\ \E fault \in Faults, now \in 1..MaxClock :
          LET r == generate_report(processed_dir, report_file, fault, now, a, nr)
          IN  /\ report_file' = r.file
              /\ writes' = IF r.opened THEN Append(writes, ReportFile) ELSE writes
              /\ log' = (IF r.opened THEN Append(log, WriteEvent(report_path)) ELSE log)
                        \o <<ReportEvent(a, nr, processed_dir, fault, r)>>
              /\ uncaught' = r.error
              /\ pc' = IF r.error = None THEN after ELSE "raised"

GenerateReportRollingBack(nr) ==
    /\ pc = "report"
    /\ CallGenerateReport(analysis.value, nr, "completed")
    /\ enriched_file' = IF uncaught' = None THEN enriched_file ELSE Absent
    /\ UNCHANGED <<df, ref_codes, analysis, caught, raw_main, raw_ref, processed_dir,
                   report_before>>
    /\ UNCHANGED dashboard_vars

\* generate_report (lines 93-112) called by main with nr, then lines 148-150
GenerateReport(nr) ==
    /\ pc = "report"
    /\ CallGenerateReport(analysis.value, nr, "completed")
    /\ UNCHANGED <<df, ref_codes, analysis, caught, raw_main, raw_ref, processed_dir,
                   enriched_file, report_before>>
    /\ UNCHANGED dashboard_vars

\* line 147: main passes {}
MainGenerateReport == GenerateReport(EmptyDict)

Next ==
    \/ Construct
    \/ LoadData
    \/ AnalyzeDataset
    \/ PrintSummary
    \/ CreateTemplate
    \/ SaveEnriched
    \/ MainGenerateReport

Spec == Init /\ [][Next]_vars

\* The process's completion status (lines 153-154): 0 when main returns, 1 when
\* an exception leaves it, -1 while it runs
ExitStatus ==
    CASE pc = "raised" -> 1
      [] pc \in {"aborted", "completed"} -> 0
      [] OTHER -> -1

\* A caller that follows main's steps and passes its own new_records to
\* generate_report (line 142: "In practice, you would add new records here"),
\* over the tables of at most ApiMaxRows rows.
ApiMaxRows == 1

ApiTables == {t \in Tables : Len(t.rows) <= ApiMaxRows}

InitAPI == InitOver(ApiTables)

ApiGenerateReport == \E nr \in NewRecordsArgs : GenerateReport(nr)

NextAPI ==
    \/ Construct
    \/ LoadData
    \/ AnalyzeDataset
    \/ PrintSummary
    \/ CreateTemplate
    \/ SaveEnriched
    \/ ApiGenerateReport

SpecAPI == InitAPI /\ [][NextAPI]_vars

\* ------------------------------------------------------------------ session
\* A caller that uses a DataProcessor as a library (a notebook): after loading
\* it calls analyze_dataset and generate_report in any order, at most MaxSteps
\* times, may build a new DataProcessor after reference_codes.csv was replaced,
\* and the processed directory may be removed under it.
MaxSteps == 3
SessionMaxRows == 1

RefCodesOther ==
    [columns |-> {"code", "label"},
     rows |-> << [code |-> "USG_DIGITAL_PAYMENT", label |-> "Digital payments"] >>]

SessionRows ==
    {r \in RowsOver({"record_type"} \cup OptionalColumns) :
        r["record_type"] = "observation" /\ r["indicator_code"] = "ACC_OWNERSHIP"}

SessionTables ==
    [columns : {{"record_type"} \cup OptionalColumns},
     rows : SeqUpTo(SessionRows, SessionMaxRows)]

SessionNewRecords == {EmptyDict, [events |-> <<"record">>]}

InitSession ==
    InitWith({Csv(t) : t \in SessionTables}, {Csv(RefCodes)}, {<<FALSE, Absent>>})

SessionSteps ==
    Cardinality({i \in DOMAIN log :
        log[i].ev \in {"analyze_dataset", "generate_report", "new_processor"}})

\* analysis = processor.analyze_dataset()
SessionAnalyze ==
    /\ pc \in {"analyze", "ready"}
    /\ SessionSteps < MaxSteps
    /\ CallAnalyzeDataset("ready")
    /\ UNCHANGED <<ref_codes, new_records, caught, raw_main, raw_ref,
                   processed_dir, enriched_file, report_file, report_before, writes>>
    /\ UNCHANGED dashboard_vars

\* processor.generate_report(analysis, nr) with the analysis the caller holds
SessionReport ==
    /\ pc = "ready"
    /\ SessionSteps < MaxSteps
    /\ \E nr \in SessionNewRecords : CallGenerateReport(analysis.value, nr, "ready")
    /\ UNCHANGED <<df, ref_codes, analysis, caught, raw_main, raw_ref, processed_dir,
                   enriched_file, report_before>>
    /\ UNCHANGED dashboard_vars

\* processor = DataProcessor(); processor.load_data(), after the reference
\* table on disk was replaced by another one
SessionNewProcessor ==
    /\ pc = "ready"
    /\ SessionSteps < MaxSteps
    /\ raw_ref' = IF raw_ref = Csv(RefCodes) THEN Csv(RefCodesOther) ELSE Csv(RefCodes)
    /\ processed_dir' = TRUE
    /\ LET r == load_data(Unset, Unset, raw_main, raw_ref')
       IN  /\ df' = r.df
           /\ ref_codes' = r.ref_codes
           /\ caught' = r.caught
           /\ uncaught' = r.raised
    /\ calls' = calls \o <<"__init__", "load_data">>
    /\ log' = Append(log, [ev |-> "new_processor"]) \o load_reads(raw_main)
    /\ UNCHANGED <<pc, analysis, new_records, raw_main, enriched_file, report_file,
                   report_before, writes>>
    /\ UNCHANGED dashboard_vars

\* the environment removes <base>/processed and what it holds
RemoveProcessedDir ==
    /\ pc = "ready"
    /\ processed_dir
    /\ processed_dir' = FALSE
    /\ enriched_file' = Absent
    /\ report_file' = Absent
    /\ UNCHANGED <<pc, calls, df, ref_codes, analysis, new_records, caught, uncaught,
                   raw_main, raw_ref, report_before, writes, log>>
    /\ UNCHANGED dashboard_vars

NextSession ==
    \/ Construct
    \/ LoadData
    \/ SessionAnalyze
    \/ SessionReport
    \/ SessionNewProcessor
    \/ RemoveProcessedDir

SpecSession == InitSession /\ [][NextSession]_vars

\* ----------------------------------------------------------------- analysis
\* main up to the analysis (lines 122-130), over tables with an unexpected
\* record_type and more indicator codes than the sample holds: MaxPrefix
\* or fewer observation rows with one code each, between a head and a tail of
\* at most MaxFree rows of any record_type.
MaxPrefix == 5
MaxFree == 1

WideCodes ==
    <<"ACC_OWNERSHIP", "USG_DIGITAL_PAYMENT", "ACC_MM_ACCOUNT", "ACC_4G_COV",
      "USG_P2P_COUNT", "GEN_GAP_ACC">>

WideColumns == {"record_type", "indicator_code"}

PrefixRows(k) ==
    [i \in 1..k |-> [record_type |-> "observation", indicator_code |-> WideCodes[i]]]

FreeRows ==
    [record_type : {"observation", "event"},
     indicator_code : {WideCodes[1], WideCodes[Len(WideCodes)], NaN}]
    \cup [record_type : {"survey", NaN}, indicator_code : {NaN}]

WideTables ==
    {[columns |-> WideColumns, rows |-> head \o PrefixRows(k) \o tail] :
        head \in SeqUpTo(FreeRows, MaxFree),
        k \in {n \in 0..MaxPrefix : n <= Len(WideCodes)},
        tail \in SeqUpTo(FreeRows, MaxFree)}

InitAnalysis ==
    InitWith({Csv(t) : t \in WideTables}, {Csv(RefCodes)}, {<<TRUE, Absent>>})

NextAnalysis ==
    \/ Construct
    \/ LoadData
    \/ AnalyzeDataset

SpecAnalysis == InitAnalysis /\ [][NextAnalysis]_vars

\* ------------------------------------------------------- load_forecast_data
\* A forecast table holds percentages with one decimal: a cell is the number of
\* tenths (52.5 is 525).
MaxForecastRows == 2

ForecastColumns ==
    {"Year", "Base Forecast (%)", "80% CI Lower (%)", "80% CI Upper (%)",
     "Optimistic Scenario (%)", "Pessimistic Scenario (%)"}

ForecastRow(year, base, lower, upper, optimistic, pessimistic) ==
    [c \in ForecastColumns |->
        CASE c = "Year" -> year
          [] c = "Base Forecast (%)" -> base
          [] c = "80% CI Lower (%)" -> lower
          [] c = "80% CI Upper (%)" -> upper
          [] c = "Optimistic Scenario (%)" -> optimistic
          [] c = "Pessimistic Scenario (%)" -> pessimistic]

\* lines 21-28
SampleAccountForecast ==
    [columns |-> ForecastColumns,
     rows |-> << ForecastRow(2025, 525, 501, 549, 542, 508),
                 ForecastRow(2026, 558, 528, 588, 581, 535),
                 ForecastRow(2027, 582, 549, 615, 623, 561) >>]

\* lines 30-37
SamplePaymentForecast ==
    [columns |-> ForecastColumns,
     rows |-> << ForecastRow(2025, 402, 381, 423, 425, 381),
                 ForecastRow(2026, 445, 418, 472, 478, 412),
                 ForecastRow(2027, 483, 452, 514, 532, 445) >>]

\* The tables a forecast file on disk may hold: at most MaxForecastRows rows
\* of a year and a base forecast.
ForecastFileRows ==
    [{"Year", "Base Forecast (%)"} -> {2025, 530}]

ForecastFileTables ==
    [columns : {{"Year", "Base Forecast (%)"}},
     rows : SeqUpTo(ForecastFileRows, MaxForecastRows)]

ForecastFiles == {Absent, Unreadable} \cup {Csv(t) : t \in ForecastFileTables}

Returned2(a, p) == [status |-> "returned", account |-> a, payment |-> p]
Raised(e) == [status |-> "raised", error |-> e]

load_forecast_data_keeping_what_was_read(account, payment) ==
    LET r1 == read_csv(account)
        r2 == read_csv(payment)
    IN  CASE r1.error = "FileNotFoundError" ->
               Returned2(SampleAccountForecast, SamplePaymentForecast)
          [] r1.error = "PermissionError" -> Raised(r1.error)
          [] r1.error = None /\ r2.error = "FileNotFoundError" ->
               Returned2(r1.frame, SamplePaymentForecast)
          [] r1.error = None /\ r2.error = "PermissionError" -> Raised(r2.error)
          [] OTHER -> Returned2(r1.frame, r2.frame)

\* load_forecast_data (lines 13-39) on the two files of data_dir: the try reads
\* the account table, then the payment table; only FileNotFoundError is caught
load_forecast_data(account, payment) ==
    LET r1 == read_csv(account)
        r2 == read_csv(payment)
    IN  CASE r1.error = "FileNotFoundError" ->
               Returned2(SampleAccountForecast, SamplePaymentForecast)
          [] r1.error = "PermissionError" -> Raised(r1.error)
          [] r1.error = None /\ r2.error = "FileNotFoundError" ->
               Returned2(SampleAccountForecast, SamplePaymentForecast)
          [] r1.error = None /\ r2.error = "PermissionError" -> Raised(r2.error)
          [] OTHER -> Returned2(r1.frame, r2.frame)

\* No DataProcessor is in use
ProcessorUnused ==
    /\ pc = "unused"
    /\ calls = << >>
    /\ df = Unset
    /\ ref_codes = Unset
    /\ analysis = NotAnalyzed
    /\ new_records = EmptyDict
    /\ caught = None
    /\ uncaught = None
    /\ raw_main = Absent
    /\ raw_ref = Absent
    /\ processed_dir = FALSE
    /\ enriched_file = Absent
    /\ report_file = Absent
    /\ report_before = Absent
    /\ writes = << >>
    /\ log = << >>

processor_vars ==
    <<pc, calls, df, ref_codes, analysis, new_records, caught, uncaught, raw_main,
      raw_ref, processed_dir, enriched_file, report_file, report_before, writes, log>>

InitForecast ==
    /\ ProcessorUnused
    /\ account_file \in ForecastFiles
    /\ payment_file \in ForecastFiles
    /\ forecast = NotCalled
    /\ state_file = Absent
    /\ saved = << >>
    /\ loaded = NotCalled
    /\ growth_args = NotCalled
    /\ growth = NotCalled

\* account_forecast, payment_forecast = load_forecast_data(data_dir)
LoadForecastData ==
    /\ forecast = NotCalled
    /\ forecast' = load_forecast_data(account_file, payment_file)
    /\ UNCHANGED <<processor_vars, account_file, payment_file, state_file, saved,
                   loaded, growth_args, growth>>

NextForecast == LoadForecastData

SpecForecast == InitForecast /\ [][NextForecast]_vars

\* ---------------------------------------------------------- dashboard state
\* A Python value is [kind, val, items]: val is the text of a scalar, items the
\* elements of a list or a tuple.  A dict is a function from keys (str or int
\* values) to values.
MaxSaves == 2

PyInt(v) == [kind |-> "int", val |-> v, items |-> << >>]
PyStr(v) == [kind |-> "str", val |-> v, items |-> << >>]
PyList(items) == [kind |-> "list", val |-> "", items |-> items]
PyTuple(items) == [kind |-> "tuple", val |-> "", items |-> items]

PyKeys == {PyStr("page"), PyInt("2025")}
PyValues == {PyInt("1"), PyStr("1"), PyList(<<PyInt("1")>>), PyTuple(<<PyInt("1")>>)}

\* The states a caller may pass to save_dashboard_state
DashboardStates == UNION {[ks -> PyValues] : ks \in SUBSET PyKeys}

\* A JSON document is an object: a function from member names to JSON values
\* [kind, val, items] of kind number, string or array.
JsonNumber(v) == [kind |-> "number", val |-> v, items |-> << >>]
JsonString(v) == [kind |-> "string", val |-> v, items |-> << >>]
JsonArray(items) == [kind |-> "array", val |-> "", items |-> items]

json_scalar(v) ==
    IF v.kind = "int" THEN JsonNumber(v.val) ELSE JsonString(v.val)

to_json_numbers_quoted(v) ==
    IF v.kind \in {"list", "tuple"}
    THEN JsonArray([i \in DOMAIN v.items |-> JsonString(v.items[i].val)])
    ELSE JsonString(v.val)

\* json.dump on one value: lists and tuples both become arrays
to_json(v) ==
    IF v.kind \in {"list", "tuple"}
    THEN JsonArray([i \in DOMAIN v.items |-> json_scalar(v.items[i])])
    ELSE json_scalar(v)

python_scalar(j) ==
    IF j.kind = "number" THEN PyInt(j.val) ELSE PyStr(j.val)

\* json.load on one value: an array becomes a list
from_json(j) ==
    IF j.kind = "array"
    THEN PyList([i \in DOMAIN j.items |-> python_scalar(j.items[i])])
    ELSE python_scalar(j)

\* json.dump(state, f): a key that is an int is written as its text
json_dump(state) ==
    LET names == {k.val : k \in DOMAIN state}
    IN  [n \in names |-> to_json(state[CHOOSE k \in DOMAIN state : k.val = n])]

\* json.load(f): every key of the dict is a str
json_load(doc) ==
    [k \in {PyStr(n) : n \in DOMAIN doc} |-> from_json(doc[k.val])]

StateJson(doc) == [kind |-> "json", doc |-> doc]

\* save_dashboard_state (lines 143-146): the file afterwards
save_dashboard_state(old, state) == open_w(old, StateJson(json_dump(state)))

Loaded(value, n, file) ==
    [status |-> "returned", value |-> value, saves |-> n, file |-> file]

load_dashboard_state_creating_file(file, n) ==
    CASE file.kind = "absent" -> Loaded(EmptyDict, n, StateJson(EmptyDict))
      [] file.kind = "json" -> Loaded(json_load(file.doc), n, file)
      [] OTHER -> [status |-> "raised", error |-> "JSONDecodeError", saves |-> n,
                   file |-> file]

\* load_dashboard_state (lines 148-154) after n saves: what it returns or
\* raises, and the file afterwards
load_dashboard_state(file, n) ==
    CASE file.kind = "absent" -> Loaded(EmptyDict, n, file)
      [] file.kind = "json" -> Loaded(json_load(file.doc), n, file)
      [] OTHER -> [status |-> "raised", error |-> "JSONDecodeError", saves |-> n,
                   file |-> file]

InitState ==
    /\ ProcessorUnused
    /\ account_file = Absent
    /\ payment_file = Absent
    /\ forecast = NotCalled
    /\ state_file = Absent
    /\ saved = << >>
    /\ loaded = NotCalled
    /\ growth_args = NotCalled
    /\ growth = NotCalled

\* save_dashboard_state(state)
SaveDashboardState ==
    /\ Len(saved) < MaxSaves
    /\ \E state \in DashboardStates :
          /\ state_file' = save_dashboard_state(state_file, state)
          /\ saved' = Append(saved, state)
    /\ UNCHANGED <<processor_vars, account_file, payment_file, forecast, loaded,
                   growth_args, growth>>

\* state = load_dashboard_state()
LoadDashboardState ==
    /\ LET r == load_dashboard_state(state_file, Len(saved))
       IN  /\ loaded' = r
           /\ state_file' = r.file
    /\ UNCHANGED <<processor_vars, account_file, payment_file, forecast, saved,
                   growth_args, growth>>

NextState ==
    \/ SaveDashboardState
    \/ LoadDashboardState

SpecState == InitState /\ [][NextState]_vars

\* ------------------------------------------------- calculate_growth_metrics
\* Values are percentages with one decimal, held as tenths (52.5 is 525), so
\* that differences and comparisons are exact.
MaxForecastValues == 2
MaxYears == 2

GrowthValues == {-50, 0, 400, 525}

YearsOfLength(k) == [i \in 1..k |-> 2024 + i]

GrowthArgs ==
    [current_value : GrowthValues,
     forecast_values : SeqUpTo(GrowthValues, MaxForecastValues),
     years : {YearsOfLength(k) : k \in 0..MaxYears}]

Returned(value) == [status |-> "returned", value |-> value]

\* x / y with y # 0, as the fraction it is
Fraction(x, y) == [num |-> x, den |-> y]

\* x ** (1/n) on Python numbers, n >= 1, x = num/den: a negative base with a
\* fractional exponent gives a complex number; otherwise the real n-th root,
\* which lies on the same side of 1 as x does.
Power(num, den, n) ==
    LET negative == (num < 0 /\ den > 0) \/ (num > 0 /\ den < 0)
        above == (den > 0 /\ num > den) \/ (den < 0 /\ num < den)
        equal == num = den
    IN  IF negative /\ n > 1
        THEN [type |-> "complex", base |-> Fraction(num, den), root |-> n, side |-> 0]
        ELSE [type |-> "float", base |-> Fraction(num, den), root |-> n,
              side |-> IF above THEN 1 ELSE IF equal THEN 0 ELSE -1]

\* doubling_time: 72 / cagr, or None
DoublingTime(cagr) == [null |-> FALSE, cagr |-> cagr]
NoDoublingTime(cagr) == [null |-> TRUE, cagr |-> cagr]

\* calculate_growth_metrics (lines 96-110)
calculate_growth_metrics(current_value, forecast_values, years) ==
    IF Len(forecast_values) < 2 THEN Returned(EmptyDict)
    ELSE LET last == forecast_values[Len(forecast_values)]
             total_growth == last - current_value
         IN  IF Len(years) = 0 THEN Raised("ZeroDivisionError")      \* line 102
             ELSE IF current_value = 0 THEN Raised("ZeroDivisionError") \* line 103
             ELSE LET cagr == Power(last, current_value, Len(years))
                  IN  IF cagr.type = "complex" THEN Raised("TypeError") \* line 109
                      ELSE Returned(
                             [total_growth_pp |-> total_growth,
                              annual_growth_pp |-> Fraction(total_growth, Len(years)),
                              cagr_percent |-> cagr,
                              doubling_time |-> IF cagr.side > 0
                                                THEN DoublingTime(cagr)
                                                ELSE NoDoublingTime(cagr)])

InitGrowth ==
    /\ ProcessorUnused
    /\ account_file = Absent
    /\ payment_file = Absent
    /\ forecast = NotCalled
    /\ state_file = Absent
    /\ saved = << >>
    /\ loaded = NotCalled
    /\ growth_args \in GrowthArgs
    /\ growth = NotCalled

\* metrics = calculate_growth_metrics(current_value, forecast_values, years)
CalculateGrowthMetrics ==
    /\ growth = NotCalled
    /\ growth' = calculate_growth_metrics(growth_args.current_value,
                                          growth_args.forecast_values,
                                          growth_args.years)
    /\ UNCHANGED <<processor_vars, account_file, payment_file, forecast, state_file,
                   saved, loaded, growth_args>>

NextGrowth == CalculateGrowthMetrics

SpecGrowth == InitGrowth /\ [][NextGrowth]_vars

\* --------------------------------------------------------------- properties
Called(method) == \E i \in DOMAIN calls : calls[i] = method
Wrote(path) == \E i \in DOMAIN writes : writes[i] = path
Terminated == pc \in {"aborted", "completed", "raised"}

RECURSIVE SumValues(_)
SumValues(f) ==
    IF DOMAIN f = {} THEN 0
    ELSE LET k == CHOOSE x \in DOMAIN f : TRUE
         IN  f[k] + SumValues([x \in DOMAIN f \ {k} |-> f[x]])

\* C1: whenever analyze_dataset has returned, the values of record_counts sum to
\* the number of rows of the loaded table (rows with a missing record_type
\* included).
C1_RecordCountsSumToRows ==
    analysis.status = "ok" =>
        SumValues(analysis.value.record_counts) = Len(df.frame.rows)

\* C2: when either raw input file is absent, analyze_dataset is never called and
\* neither the enriched CSV nor the report is written.
C2_MissingInputAbortsBeforeAnalysis ==
    (raw_main = Absent \/ raw_ref = Absent) =>
        /\ ~Called("analyze_dataset")
        /\ analysis = NotAnalyzed
        /\ ~Called("save_enriched_data") /\ ~Wrote(EnrichedFile)
        /\ enriched_file = Absent
        /\ ~Called("generate_report") /\ ~Wrote(ReportFile)
        /\ report_file = report_before

\* The run has ended on a missing reference file, after the main table was read.
C2_Witness ==
    /\ pc = "aborted"
    /\ raw_ref = Absent
    /\ df.set
    /\ caught = "FileNotFoundError"

IOErrorOccurred ==
    caught # None \/ uncaught \in {"OSError", "PermissionError"}

\* C3: a run in which an input file was missing or a write failed ends with the
\* error leaving main and a non-zero completion status.
C3_IOErrorsEndInFailure ==
    (Terminated /\ IOErrorOccurred) => (pc = "raised" /\ ExitStatus # 0)

\* C4: once generate_report has been called, the report path holds a complete
\* report or what it held before the run.
C4_ReportAllOrNothing ==
    Called("generate_report") =>
        (report_file = report_before \/ report_file.kind = "json")

\* C5: analyze_dataset returns a result on every table that has a record_type
\* column, whatever optional columns are absent.
C5_AnalyzeNeverRaises ==
    Called("analyze_dataset") => analysis.status = "ok"

RangeAbsent(a) ==
    \/ "obs_date_range" \notin DOMAIN a
    \/ (a.obs_date_range.min = None /\ a.obs_date_range.max = None)

\* C6: on a table of zero rows analyze_dataset returns empty record_counts, an
\* absent date range, an indicator count of 0 and empty missing_values.
C6_EmptyTableAnalysis ==
    (Called("analyze_dataset") /\ df.set /\ Len(df.frame.rows) = 0) =>
        /\ analysis.status = "ok"
        /\ DOMAIN analysis.value.record_counts = {}
        /\ RangeAbsent(analysis.value)
        /\ analysis.value.unique_indicators_count = 0
        /\ DOMAIN analysis.value.missing_values = {}

ParseableDates == {"2014-12-31", "2021-06-30"}

\* The observation rows of a frame that carry a date the parser accepts
RowsWithValidObservationDate(frame) ==
    {i \in DOMAIN frame.rows :
        /\ frame.rows[i]["record_type"] = "observation"
        /\ "observation_date" \in frame.columns
        /\ frame.rows[i]["observation_date"] \in ParseableDates}

\* C7: when no observation row has a parseable date, the reported
\* obs_date_range is absent or has null min and max (no default date).
C7_NoValidDatesNoRange ==
    (analysis.status = "ok" /\ RowsWithValidObservationDate(df.frame) = {}) =>
        RangeAbsent(analysis.value)

\* An analysed table whose only observation has an unparseable date, beside an
\* event row that carries a parseable one.
C7_Witness ==
    /\ analysis.status = "ok"
    /\ "observation_date" \in df.frame.columns
    /\ RowsWithValidObservationDate(df.frame) = {}
    /\ \E i \in DOMAIN df.frame.rows :
          /\ df.frame.rows[i]["record_type"] = "observation"
          /\ df.frame.rows[i]["observation_date"] = "not-a-date"
    /\ \E i \in DOMAIN df.frame.rows :
          /\ df.frame.rows[i]["record_type"] = "event"
          /\ df.frame.rows[i]["observation_date"] \in ParseableDates
    /\ analysis.value.obs_date_range = [min |-> None, max |-> None]

MissingIn(frame, c) ==
    Cardinality({i \in DOMAIN frame.rows : frame.rows[i][c] = NaN})

\* C8: a column is in missing_values exactly when it has a missing cell in the
\* full table, with that number of missing cells as its value.
C8_MissingValuesExact ==
    analysis.status = "ok" =>
        LET mv == analysis.value.missing_values
        IN  /\ DOMAIN mv \subseteq df.frame.columns
            /\ \A c \in df.frame.columns :
                  /\ c \in DOMAIN mv <=> MissingIn(df.frame, c) > 0
                  /\ c \in DOMAIN mv => mv[c] = MissingIn(df.frame, c) /\ mv[c] > 0

\* An analysed table with a complete column and a column whose missing cells
\* are on a row that is not an observation.
C8_Witness ==
    /\ analysis.status = "ok"
    /\ \E c \in df.frame.columns : MissingIn(df.frame, c) = 0
    /\ \E c \in df.frame.columns :
          /\ MissingIn(df.frame, c) = 2
          /\ analysis.value.missing_values[c] = 2
          /\ \E i \in DOMAIN df.frame.rows :
                /\ df.frame.rows[i][c] = NaN
                /\ df.frame.rows[i]["record_type"] = "event"

NewCount(k) == IF k \in DOMAIN new_records THEN Len(new_records[k]) ELSE 0

\* C9 as stated: the report's enrichment_summary has the keys observations,
\* events and impact_links, each the size of its collection and 0 when absent.
C9_SummaryKeysAsStated ==
    pc = "completed" =>
        report_file.report.enrichment_summary =
            [observations |-> NewCount("observations"),
             events |-> NewCount("events"),
             impact_links |-> NewCount("impact_links")]

\* C9: the report's enrichment_summary has the keys new_observations, new_events
\* and new_impact_links; each is the size of the collection new_records holds
\* under observations, events and impact_links, and 0 when the key is absent.
C9_SummaryCounts ==
    pc = "completed" =>
        report_file.report.enrichment_summary =
            [new_observations |-> NewCount("observations"),
             new_events |-> NewCount("events"),
             new_impact_links |-> NewCount("impact_links")]

\* A report written for a new_records that holds events only.
C9_Witness ==
    /\ pc = "completed"
    /\ DOMAIN new_records = {"events"}
    /\ Len(new_records["events"]) = 1
    /\ report_file.report.enrichment_summary =
          [new_observations |-> 0, new_events |-> 1, new_impact_links |-> 0]

\* C10 as stated: a run that completes has written exactly one file, the report.
C10_ExactlyOneFileWritten ==
    pc = "completed" => writes = <<"processed/task1_report.json">>

\* C10: a run that completes has written exactly two files, the enriched CSV
\* and then the report; no run writes any other file.
C10_TwoFilesWritten ==
    /\ pc = "completed" =>
          writes = <<"processed/ethiopia_fi_enriched.csv", "processed/task1_report.json">>
    /\ \A i \in DOMAIN writes :
          writes[i] \in {"processed/ethiopia_fi_enriched.csv",
                         "processed/task1_report.json"}

\* A completed run with both files on disk.
C10_Witness ==
    /\ pc = "completed"
    /\ enriched_file.kind = "csv"
    /\ report_file.kind = "json"
    /\ report_file # report_before

AnalyzeEvents == {i \in DOMAIN log : log[i].ev = "analyze_dataset"}
ReportEvents == {i \in DOMAIN log : log[i].ev = "generate_report"}
WrittenReports == {i \in ReportEvents : log[i].error = None}

\* C11: a step that calls analyze_dataset leaves self.df (its observation_date
\* cells included) and self.ref_codes as they were before the call.
C11_AnalyzeLeavesInputs ==
    [][(Len(calls') > Len(calls) /\ calls'[Len(calls')] = "analyze_dataset")
        => (df' = df /\ ref_codes' = ref_codes)]_vars

\* analyze_dataset has returned on a table with an observation whose date does
\* not parse, and the table is still the one that was loaded.
C11_Witness ==
    /\ analysis.status = "ok"
    /\ "observation_date" \in df.frame.columns
    /\ \E i \in DOMAIN df.frame.rows :
          /\ df.frame.rows[i]["record_type"] = "observation"
          /\ df.frame.rows[i]["observation_date"] = "not-a-date"
    /\ df.frame = raw_main.frame
    /\ analysis.value.obs_date_range = [min |-> None, max |-> None]

\* C12: any two calls of analyze_dataset on equal tables returned equal results,
\* whatever reference table the processor held and whatever was called between.
C12_AnalyzeDeterministic ==
    \A i \in AnalyzeEvents, j \in AnalyzeEvents :
        log[i].frame = log[j].frame => log[i].result = log[j].result

\* Two calls on the same one-row table, by two processors holding different
\* reference tables.
C12_Witness ==
    \E i \in AnalyzeEvents, j \in AnalyzeEvents :
        /\ i < j
        /\ Len(log[i].frame.rows) = 1
        /\ log[i].frame = log[j].frame
        /\ log[i].ref_codes # log[j].ref_codes
        /\ log[i].result.status = "ok"

\* C13: two reports built from the same analysis and new_records agree on
\* dataset_analysis, enrichment_summary, data_quality_issues and recommendations;
\* every report embeds the given analysis unchanged and two empty lists.
C13_ReportDeterministic ==
    /\ \A i \in WrittenReports :
          /\ log[i].file.report.dataset_analysis = log[i].analysis
          /\ log[i].file.report.data_quality_issues = << >>
          /\ log[i].file.report.recommendations = << >>
    /\ \A i \in WrittenReports, j \in WrittenReports :
          (log[i].analysis = log[j].analysis /\ log[i].new_records = log[j].new_records)
          => /\ log[i].file.report.dataset_analysis = log[j].file.report.dataset_analysis
             /\ log[i].file.report.enrichment_summary = log[j].file.report.enrichment_summary
             /\ log[i].file.report.data_quality_issues = log[j].file.report.data_quality_issues
             /\ log[i].file.report.recommendations = log[j].file.report.recommendations

\* Two reports from the same inputs that differ in their timestamp.
C13_Witness ==
    \E i \in WrittenReports, j \in WrittenReports :
        /\ i < j
        /\ log[i].analysis = log[j].analysis
        /\ log[i].new_records = log[j].new_records
        /\ log[i].file.report.generated_date # log[j].file.report.generated_date

WithoutTimestamp(file) ==
    IF file.kind = "json" THEN [file.report EXCEPT !.generated_date = 0] ELSE file

\* C14: when the same report is written to the report path a second time, the
\* file holds what it held after the first write, the timestamp apart: one
\* complete report, the second in place of the first.
C14_PersistIdempotent ==
    \A i \in WrittenReports, j \in WrittenReports :
        (i < j /\ log[i].analysis = log[j].analysis
               /\ log[i].new_records = log[j].new_records)
        => /\ log[j].file.kind = "json"
           /\ WithoutTimestamp(log[j].file) = WithoutTimestamp(log[i].file)

\* The report was written twice in a row over itself, with one new event.
C14_Witness ==
    \E i \in WrittenReports :
        /\ i + 2 \in WrittenReports
        /\ log[i + 1].ev = "write"
        /\ log[i].new_records = [events |-> <<"record">>]
        /\ log[i + 2].new_records = log[i].new_records
        /\ log[i + 2].analysis = log[i].analysis
        /\ report_file = log[i + 2].file

\* C15: generate_report writes the report whenever the disk has no fault, also
\* when the processed directory is not there at the call, and raises when the
\* destination cannot be written.
C15_PersistCreatesParents ==
    \A i \in ReportEvents :
        /\ log[i].fault = "none" => log[i].error = None
        /\ log[i].fault # "none" => log[i].error # None

\* C16: every read is of a file under raw, every write of a file under
\* processed, and processed exists once the processor is constructed.
C16_DirectoriesUnderBase ==
    /\ \A i \in DOMAIN log :
          /\ log[i].ev = "read" => log[i].path.dir = "raw"
          /\ log[i].ev = "write" => log[i].path.dir = "processed"
    /\ Called("__init__") => processed_dir

\* A run that aborted on a missing input after reading from raw, with the
\* processed directory there.
C16_Witness ==
    /\ pc = "aborted"
    /\ processed_dir
    /\ report_before = Absent
    /\ \E i \in DOMAIN log : log[i].ev = "read" /\ log[i].path.dir = "raw"

MainOrder ==
    <<"__init__", "load_data", "analyze_dataset", "create_enrichment_template",
      "save_enriched_data", "generate_report">>

\* C17: main calls the steps in order and each at most once; analyze_dataset
\* only after load_data succeeded, generate_report only after analyze_dataset
\* returned, and the report written embeds that analysis.
C17_StepsInOrder ==
    /\ Len(calls) <= Len(MainOrder)
    /\ calls = SubSeq(MainOrder, 1, Len(calls))
    /\ Called("analyze_dataset") => (df.set /\ ref_codes.set /\ caught = None)
    /\ Called("generate_report") => analysis.status = "ok"
    /\ pc = "completed" => report_file.report.dataset_analysis = analysis.value

\* A completed run: every step was called, and the report holds the analysis.
C17_Witness ==
    /\ pc = "completed"
    /\ calls = MainOrder
    /\ Len(df.frame.rows) > 0
    /\ report_file.report.dataset_analysis = analysis.value

\* The calendar order of the parseable dates, earliest first
Calendar == <<"2014-12-31", "2021-06-30">>

NotLater(a, b) ==
    \E i, j \in DOMAIN Calendar : Calendar[i] = a /\ Calendar[j] = b /\ i <= j

ValidObservationDates(frame) ==
    {frame.rows[i]["observation_date"] : i \in RowsWithValidObservationDate(frame)}

\* C19: when some observation row has a parseable date, obs_date_range.min and
\* .max are the earliest and the latest parseable date among the observation
\* rows (dates of other rows and unparseable or missing dates play no part),
\* and min is not later than max.
C19_RangeOverValidObservationDates ==
    (analysis.status = "ok" /\ RowsWithValidObservationDate(df.frame) # {}) =>
        LET valid == ValidObservationDates(df.frame)
            range == analysis.value.obs_date_range
        IN  /\ range.min \in valid
            /\ range.max \in valid
            /\ \A d \in valid : NotLater(range.min, d) /\ NotLater(d, range.max)
            /\ NotLater(range.min, range.max)

\* An analysed table with one dated observation and a row the range must not
\* follow: an event with the other date, or an observation with a date the
\* parser rejects.
C19_Witness ==
    /\ analysis.status = "ok"
    /\ "observation_date" \in df.frame.columns
    /\ Len(df.frame.rows) = 2
    /\ df.frame.rows[1]["record_type"] = "observation"
    /\ df.frame.rows[1]["observation_date"] = "2021-06-30"
    /\ \/ /\ df.frame.rows[2]["record_type"] = "event"
          /\ df.frame.rows[2]["observation_date"] = "2014-12-31"
       \/ /\ df.frame.rows[2]["record_type"] = "observation"
          /\ df.frame.rows[2]["observation_date"] \in {"not-a-date", NaN}
    /\ analysis.value.obs_date_range = [min |-> "2021-06-30", max |-> "2021-06-30"]

\* An analysed table whose two observations carry different dates
C19_WitnessTwoDates ==
    /\ analysis.status = "ok"
    /\ Cardinality(ValidObservationDates(df.frame)) = 2
    /\ analysis.value.obs_date_range = [min |-> "2014-12-31", max |-> "2021-06-30"]

RowsOfType(frame, v) == SelectSeq(frame.rows, LAMBDA r : r["record_type"] = v)

OccurringTypes(frame) ==
    {frame.rows[i]["record_type"] : i \in DOMAIN frame.rows} \ {NaN}

\* C18: record_counts has exactly the non-null values that occur in the
\* record_type column as keys, expected or not, each with the number of rows
\* that carry it (so no key has count zero).
C18_RecordCountsByLiteralValue ==
    analysis.status = "ok" =>
        LET rc == analysis.value.record_counts
        IN  /\ DOMAIN rc = OccurringTypes(df.frame)
            /\ \A v \in OccurringTypes(df.frame) :
                  rc[v] = Len(RowsOfType(df.frame, v)) /\ rc[v] > 0

\* An analysed table with a row of an unexpected record_type, a row whose
\* record_type is missing and several observations.
C18_Witness ==
    /\ analysis.status = "ok"
    /\ \E i \in DOMAIN df.frame.rows : df.frame.rows[i]["record_type"] = NaN
    /\ "survey" \in DOMAIN analysis.value.record_counts
    /\ analysis.value.record_counts["survey"] = 1
    /\ "observation" \in DOMAIN analysis.value.record_counts
    /\ analysis.value.record_counts["observation"] > 1
    /\ "event" \notin DOMAIN analysis.value.record_counts

\* The observation rows of a frame that carry an indicator code
CodedObservations(frame) ==
    {i \in DOMAIN frame.rows :
        /\ frame.rows[i]["record_type"] = "observation"
        /\ frame.rows[i]["indicator_code"] # NaN}

ObservationCodes(frame) ==
    {frame.rows[i]["indicator_code"] : i \in CodedObservations(frame)}

\* The first observation row that carries code c
FirstOccurrence(frame, c) ==
    CHOOSE i \in CodedObservations(frame) :
        /\ frame.rows[i]["indicator_code"] = c
        /\ \A j \in CodedObservations(frame) :
              frame.rows[j]["indicator_code"] = c => i <= j

\* C20: unique_indicators_count is the number of distinct non-null codes on
\* observation rows, and sample_indicators holds the first min(5, count) of
\* them, in the order of their first occurrence, each once.
C20_IndicatorCountAndSample ==
    analysis.status = "ok" =>
        LET codes == ObservationCodes(df.frame)
            count == analysis.value.unique_indicators_count
            sample == analysis.value.sample_indicators
            sampled == {sample[i] : i \in DOMAIN sample}
        IN  /\ count = Cardinality(codes)
            /\ Len(sample) = (IF count < 5 THEN count ELSE 5)
            /\ sampled \subseteq codes
            /\ \A i, j \in DOMAIN sample :
                  i < j => FirstOccurrence(df.frame, sample[i])
                            < FirstOccurrence(df.frame, sample[j])
            /\ \A c \in codes \ sampled : \A i \in DOMAIN sample :
                  FirstOccurrence(df.frame, sample[i]) < FirstOccurrence(df.frame, c)

\* An analysed table whose observations carry six codes, one of them twice:
\* the sample holds five.
C20_Witness ==
    /\ analysis.status = "ok"
    /\ Cardinality(ObservationCodes(df.frame)) = 6
    /\ Cardinality(CodedObservations(df.frame)) = 7
    /\ analysis.value.unique_indicators_count = 6
    /\ Len(analysis.value.sample_indicators) = 5

\* An analysed table with a code that only an event row carries
C20_WitnessEventCode ==
    /\ analysis.status = "ok"
    /\ \E i \in DOMAIN df.frame.rows :
          /\ df.frame.rows[i]["record_type"] = "event"
          /\ df.frame.rows[i]["indicator_code"] \notin ObservationCodes(df.frame) \cup {NaN}
    /\ analysis.value.unique_indicators_count = 5

\* load_data returned True: main went on to the analysis (line 125)
LoadReturnedTrue ==
    /\ Called("load_data")
    /\ pc # "aborted"
    /\ ~(pc = "raised" /\ ~Called("analyze_dataset"))

BothInputsReadable == raw_main.kind = "csv" /\ raw_ref.kind = "csv"

\* C21: load_data returns True exactly when both raw files were read, and then
\* df and ref_codes are both set; when only reference_codes.csv is missing it
\* returns False with df set to the main table and ref_codes not set.
C21_LoadResultAndAttributes ==
    /\ LoadReturnedTrue <=> (Called("load_data") /\ BothInputsReadable)
    /\ LoadReturnedTrue =>
          /\ df.set /\ ref_codes.set
          /\ ref_codes.frame = raw_ref.frame
    /\ (Called("load_data") /\ raw_main.kind = "csv" /\ raw_ref = Absent) =>
          /\ pc = "aborted"
          /\ df = Set(raw_main.frame)
          /\ ~ref_codes.set

\* load_data has returned False on a missing reference table and the processor
\* holds a main table with rows.
C21_Witness ==
    /\ Called("load_data")
    /\ pc = "aborted"
    /\ raw_ref = Absent
    /\ df.set
    /\ Len(df.frame.rows) > 0
    /\ ~ref_codes.set

\* load_data has returned True
C21_WitnessLoaded ==
    LoadReturnedTrue /\ df.set /\ ref_codes.set /\ pc = "analyze"

\* C22: whenever this run has opened task1_report.json, the enriched CSV was
\* written before it and is on disk, complete; when generate_report fails the
\* enriched CSV stays on disk.
C22_EnrichedBeforeReport ==
    /\ Wrote("processed/task1_report.json") =>
          /\ writes = <<"processed/ethiopia_fi_enriched.csv", "processed/task1_report.json">>
          /\ enriched_file = Csv(df.frame)
    /\ (Called("generate_report") /\ uncaught # None) =>
          enriched_file = Csv(df.frame)

\* The report was opened and its write failed; the enriched CSV is on disk.
C22_Witness ==
    /\ Called("generate_report")
    /\ pc = "raised"
    /\ uncaught = "OSError"
    /\ report_file = Partial
    /\ enriched_file.kind = "csv"
    /\ Len(enriched_file.frame.rows) > 0

C23_WitnessBothRead ==
    /\ forecast.status = "returned"
    /\ account_file.kind = "csv" /\ payment_file.kind = "csv"
    /\ forecast.account = account_file.frame
    /\ account_file # payment_file

\* The account file exists and cannot be read while the payment file is
\* missing: the error leaves load_forecast_data
C23_WitnessUnreadable ==
    /\ account_file = Unreadable
    /\ payment_file = Absent
    /\ forecast = [status |-> "raised", error |-> "PermissionError"]

\* A state made of str keys and of ints, strs and lists of them
JsonRepresentable(state) ==
    /\ \A k \in DOMAIN state : k.kind = "str"
    /\ \A k \in DOMAIN state : state[k].kind \in {"int", "str", "list"}

\* C24: a load that follows n >= 1 saves returns the state of the n-th save
\* when that state is JSON-representable, whatever was saved before it; a load
\* with no save before it returns the empty mapping and leaves no file.
C24_StateRoundTrip ==
    /\ (loaded.status # "none" /\ loaded.saves > 0
        /\ JsonRepresentable(saved[loaded.saves])) =>
          /\ loaded.status = "returned"
          /\ loaded.value = saved[loaded.saves]
    /\ (loaded.status # "none" /\ loaded.saves = 0) =>
          /\ loaded.status = "returned"
          /\ DOMAIN loaded.value = {}
    /\ Len(saved) = 0 => state_file = Absent

\* Two different representable states were saved one after the other, the
\* second not empty, and a load returned the second.
C24_Witness ==
    /\ Len(saved) = 2
    /\ JsonRepresentable(saved[1])
    /\ JsonRepresentable(saved[2])
    /\ saved[1] # saved[2]
    /\ DOMAIN saved[2] # {}
    /\ loaded.status = "returned"
    /\ loaded.saves = 2
    /\ loaded.value = saved[2]

\* A load before any save: nothing on disk afterwards
C24_WitnessNoFile ==
    /\ Len(saved) = 0
    /\ loaded.status = "returned"
    /\ state_file = Absent

\* A state with an int key or a tuple does not come back as it was saved
C24_WitnessNotRepresentable ==
    /\ loaded.status = "returned"
    /\ loaded.saves > 0
    /\ ~JsonRepresentable(saved[loaded.saves])
    /\ loaded.value # saved[loaded.saves]

GrowthKeys == {"total_growth_pp", "annual_growth_pp", "cagr_percent", "doubling_time"}

LastForecast == growth_args.forecast_values[Len(growth_args.forecast_values)]

\* The four metrics as stated: the keys, the total growth, and doubling_time
\* null exactly when the last forecast value does not exceed current_value
MetricsAsStated ==
    /\ growth.status = "returned"
    /\ DOMAIN growth.value = GrowthKeys
    /\ growth.value.total_growth_pp = LastForecast - growth_args.current_value
    /\ growth.value.doubling_time.null <=> LastForecast <= growth_args.current_value

\* C25: with fewer than 2 forecast values the result is the empty mapping;
\* otherwise, with current_value positive and years not empty, the result is
\* the four metrics as stated; with years empty and 2 or more forecast values
\* the call fails with a division by zero.
C25_GrowthMetricsAsStated ==
    growth.status # "none" =>
        /\ Len(growth_args.forecast_values) < 2 =>
              (growth.status = "returned" /\ DOMAIN growth.value = {})
        /\ (Len(growth_args.forecast_values) >= 2 /\ growth_args.current_value > 0
             /\ Len(growth_args.years) > 0) => MetricsAsStated
        /\ (Len(growth_args.forecast_values) >= 2 /\ Len(growth_args.years) = 0) =>
              growth = [status |-> "raised", error |-> "ZeroDivisionError"]

\* C25 for forecasts that are percentages: the same, when the last forecast
\* value is not negative or years has one entry.
C25_GrowthMetricsOfPercentages ==
    growth.status # "none" =>
        /\ Len(growth_args.forecast_values) < 2 =>
              (growth.status = "returned" /\ DOMAIN growth.value = {})
        /\ (Len(growth_args.forecast_values) >= 2 /\ growth_args.current_value > 0
             /\ Len(growth_args.years) > 0
             /\ (LastForecast >= 0 \/ Len(growth_args.years) = 1)) => MetricsAsStated
        /\ (Len(growth_args.forecast_values) >= 2 /\ growth_args.current_value > 0
             /\ Len(growth_args.years) > 1 /\ LastForecast < 0) =>
              growth = [status |-> "raised", error |-> "TypeError"]
        /\ (Len(growth_args.forecast_values) >= 2 /\ Len(growth_args.years) = 0) =>
              growth = [status |-> "raised", error |-> "ZeroDivisionError"]

\* A forecast that rises above a positive current value over two years: the
\* four metrics, with a doubling time.
C25_WitnessGrowth ==
    /\ growth.status = "returned"
    /\ Len(growth_args.forecast_values) >= 2
    /\ growth_args.current_value = 400
    /\ LastForecast = 525
    /\ Len(growth_args.years) = 2
    /\ growth.value.total_growth_pp = 125
    /\ ~growth.value.doubling_time.null

\* A negative last forecast value over two years, current_value positive
C25_WitnessTypeError ==
    /\ growth_args.current_value > 0
    /\ Len(growth_args.forecast_values) >= 2
    /\ LastForecast < 0
    /\ Len(growth_args.years) = 2
    /\ growth = [status |-> "raised", error |-> "TypeError"]

====
